---- MODULE Spec2Model ----
(***************************************************************************)
(* Model of the google-search-mcp server: the persisted quota store        *)
(* (GlobalConfigManager, global-config.ts), its wrapper (config.ts) and    *)
(* the search tool's execute (tools/search.ts).                            *)
(*                                                                         *)
(* Time is a clock `now`; `new Date().toISOString()` is the clock value    *)
(* and `.split('T')[0]` is its calendar day, now \div TicksPerDay.         *)
(* A credential id `key_<i>` is the string "key_" \o ToString(i).          *)
(* JavaScript runs one synchronous segment at a time: `running` names the  *)
(* execute invocation whose segment is on the stack (0: the event loop is  *)
(* idle), and only that invocation steps until it awaits or returns. The   *)
(* clock may advance between any two calls.                                *)
(***************************************************************************)
EXTENDS Integers, Sequences, FiniteSets, TLC

\* ---------------------------------------------------------------- bounds
MaxKeys == 2
MaxLimit == 2
NumProcs == 2
TicksPerDay == 2
MaxDay == 2

Procs == 1..NumProcs

VARIABLES
    now,        \* the wall clock
    file,       \* ~/.google-search-mcp.json
    diskOk,     \* whether fs.writeFileSync on that file succeeds
    config,     \* GlobalConfigManager.config
    phase,      \* module evaluation: "start", "check", "status", "serving"
    validConfig,\* what hasValidConfig answered in checkConfiguration
    running,    \* the execute invocation on the stack, or 0
    pc,         \* per execute invocation: where it is
    apiKey,     \* per invocation: `apiKey` of the try block (config.ts copy)
    caught,     \* per invocation: the error caught, [thrown, code]
    catchKey,   \* per invocation: `apiKey` of the catch block
    response,   \* per invocation: the response being built
    applied,    \* history: per record, incrementUsage calls of this run since its reset
    disabled,   \* history: per record, the last disableKey call: the day it was
                \* made on and the record's lastReset at that moment
    call,       \* the last call of a client of GlobalConfigManager, and its answer
    snap,       \* history: the answer of the last getQuotaStatus and its day,
                \* while no mutating call has followed it, and whether it
                \* was already the second such answer of that day
    persisted,  \* history: the records at the last call of saveConfig, by
                \* this process or an earlier one, and whether its write succeeded
    peer,       \* GlobalConfigManager.config of a second server process
    fd          \* per server process: the text of its last writeFileSync, and
                \* whether the file is open and that text still to be written

\* what the server's own run (Spec) leaves alone
clientVars == <<call, snap, persisted, peer, fd>>

vars == <<now, file, diskOk, config, phase, validConfig, running, pc, apiKey, caught,
          catchKey, response, applied, disabled, call, snap, persisted, peer, fd>>

\* ------------------------------------------------------------- the clock
\* new Date().toISOString().split('T')[0]
IsoDate(t) == t \div TicksPerDay

\* ------------------------------------------------------- the quota store
KeyId(i) == "key_" \o ToString(i)

\* null, for a variable that holds an ApiKeyState
NoKey == [id |-> "", apiKey |-> "", searchEngineId |-> "", dailyUsage |-> 0,
          dailyLimit |-> 0, lastReset |-> 0, isActive |-> FALSE]

\* What execute reads of the GoogleApiKey that config.ts copies out of the
\* store: apiKey.id, apiKey.apiKey and apiKey.searchEngineId.
NoCredential == [id |-> "", apiKey |-> "", searchEngineId |-> ""]

Credential(k) == [id |-> k.id, apiKey |-> k.apiKey, searchEngineId |-> k.searchEngineId]

Version == "1.0.0"

EmptyConfig(t) == [keys |-> <<>>, lastUpdated |-> t, version |-> Version]

\* The text of the file is the sequence of the object's properties, each a
\* pair <<name, value>>, in the order JSON.stringify writes them. A property
\* whose value is undefined is not written: version "" stands for a config
\* without the version field.
\* faulty variant: isActive is not written
StringifyKeyNoFlag(k) ==
    << <<"id", k.id>>, <<"apiKey", k.apiKey>>, <<"searchEngineId", k.searchEngineId>>,
       <<"dailyUsage", k.dailyUsage>>, <<"dailyLimit", k.dailyLimit>>,
       <<"lastReset", k.lastReset>> >>

StringifyKey(k) ==
    << <<"id", k.id>>, <<"apiKey", k.apiKey>>, <<"searchEngineId", k.searchEngineId>>,
       <<"dailyUsage", k.dailyUsage>>, <<"dailyLimit", k.dailyLimit>>,
       <<"lastReset", k.lastReset>>, <<"isActive", k.isActive>> >>

\* JSON.stringify(this.config, null, 2)
Stringify(c) ==
    << <<"keys", [i \in DOMAIN c.keys |-> StringifyKey(c.keys[i])]>>,
       <<"lastUpdated", c.lastUpdated>> >>
    \o (IF c.version = "" THEN <<>> ELSE << <<"version", c.version>> >>)

\* obj[name] of a parsed object: the value of the property, or undef
Get(pairs, name, undef) ==
    IF \E i \in DOMAIN pairs : pairs[i][1] = name
    THEN pairs[CHOOSE i \in DOMAIN pairs : pairs[i][1] = name][2]
    ELSE undef

ParseKey(pairs) ==
    [id |-> Get(pairs, "id", ""), apiKey |-> Get(pairs, "apiKey", ""),
     searchEngineId |-> Get(pairs, "searchEngineId", ""),
     dailyUsage |-> Get(pairs, "dailyUsage", 0),
     dailyLimit |-> Get(pairs, "dailyLimit", 0),
     lastReset |-> Get(pairs, "lastReset", 0),
     isActive |-> Get(pairs, "isActive", FALSE)]

\* JSON.parse(data), read as a GlobalConfig
Parse(text) ==
    LET ks == Get(text, "keys", <<>>)
    IN  [keys |-> [i \in DOMAIN ks |-> ParseKey(ks[i])],
         lastUpdated |-> Get(text, "lastUpdated", 0),
         version |-> Get(text, "version", "")]

\* faulty variant: after a failed write the config is read back from the file
saveConfigReload(S, t, ok) ==
    LET c == [S.config EXCEPT !.lastUpdated = t]
    IN  [config |-> IF ok \/ S.file.kind # "json" THEN c ELSE Parse(S.file.data),
         file   |-> IF ok THEN [kind |-> "json", data |-> Stringify(c)] ELSE S.file,
         writes |-> S.writes + 1]

\* faulty variant: lastUpdated is set only after a write that succeeded
saveConfigStampAfter(S, t, ok) ==
    LET c == [S.config EXCEPT !.lastUpdated = t]
    IN  [config |-> IF ok THEN c ELSE S.config,
         file   |-> IF ok THEN [kind |-> "json", data |-> Stringify(c)] ELSE S.file,
         writes |-> S.writes + 1]

\* saveConfig: lastUpdated is set first, then the whole config is written;
\* a failing write (ok = FALSE) is caught and logged. S.writes counts the
\* calls of saveConfig that an operation makes.
saveConfig(S, t, ok) ==
    LET c == [S.config EXCEPT !.lastUpdated = t]
    IN  [config |-> c,
         file   |-> IF ok THEN [kind |-> "json", data |-> Stringify(c)] ELSE S.file,
         writes |-> S.writes + 1]

\* faulty variant: the reset that forgets to re-enable the key
ResetKeyStaysDisabled(k, today) ==
    IF k.lastReset # today
    THEN [k EXCEPT !.dailyUsage = 0, !.lastReset = today]
    ELSE k

ResetKey(k, today) ==
    IF k.lastReset # today
    THEN [k EXCEPT !.dailyUsage = 0, !.lastReset = today, !.isActive = TRUE]
    ELSE k

\* faulty variant: the reset without the comparison of lastReset with today
resetDailyUsageAlways(S, t, ok) ==
    LET today == IsoDate(t)
        keys  == S.config.keys
        reset == [i \in DOMAIN keys |->
                    [keys[i] EXCEPT !.dailyUsage = 0, !.lastReset = today,
                                    !.isActive = TRUE]]
    IN  IF keys # <<>>
        THEN saveConfig([S EXCEPT !.config.keys = reset], t, ok)
        ELSE S

\* faulty variant: saveConfig is called in the loop, once per record reset
resetDailyUsagePerRecord(S, t, ok) ==
    LET today == IsoDate(t)
        keys  == S.config.keys
        old   == { i \in DOMAIN keys : keys[i].lastReset # today }
        reset == [i \in DOMAIN keys |-> ResetKey(keys[i], today)]
    IN  IF old # {}
        THEN [saveConfig([S EXCEPT !.config.keys = reset], t, ok)
                 EXCEPT !.writes = S.writes + Cardinality(old)]
        ELSE S

resetDailyUsageIfNeeded(S, t, ok) ==
    LET today == IsoDate(t)
        keys  == S.config.keys
        hasChanges == \E i \in DOMAIN keys : keys[i].lastReset # today
        reset == [i \in DOMAIN keys |-> ResetKey(keys[i], today)]
    IN  IF hasChanges
        THEN saveConfig([S EXCEPT !.config.keys = reset], t, ok)
        ELSE S

\* faulty variant: an id that no record has finds the first record
FindOrFirst(keys, keyId) ==
    IF \E i \in DOMAIN keys : keys[i].id = keyId
    THEN CHOOSE i \in DOMAIN keys :
            /\ keys[i].id = keyId
            /\ \A j \in 1..(i-1) : keys[j].id # keyId
    ELSE IF keys # <<>> THEN 1 ELSE 0

\* this.config.keys.find(k => k.id === keyId): the index of the first match, or 0
Find(keys, keyId) ==
    IF \E i \in DOMAIN keys : keys[i].id = keyId
    THEN CHOOSE i \in DOMAIN keys :
            /\ keys[i].id = keyId
            /\ \A j \in 1..(i-1) : keys[j].id # keyId
    ELSE 0

\* faulty variant: the scan that does not compare dailyUsage with dailyLimit
FirstActive(keys) ==
    IF \E i \in DOMAIN keys : keys[i].isActive
    THEN CHOOSE i \in DOMAIN keys :
            /\ keys[i].isActive
            /\ \A j \in 1..(i-1) : ~keys[j].isActive
    ELSE 0

FirstAvailable(keys) ==
    IF \E i \in DOMAIN keys : keys[i].isActive /\ keys[i].dailyUsage < keys[i].dailyLimit
    THEN CHOOSE i \in DOMAIN keys :
            /\ keys[i].isActive /\ keys[i].dailyUsage < keys[i].dailyLimit
            /\ \A j \in 1..(i-1) :
                 ~(keys[j].isActive /\ keys[j].dailyUsage < keys[j].dailyLimit)
    ELSE 0

getAvailableKey(S, t, ok) ==
    LET S1 == resetDailyUsageIfNeeded(S, t, ok)
        i  == FirstAvailable(S1.config.keys)
    IN  [S |-> S1, result |-> IF i = 0 THEN NoKey ELSE S1.config.keys[i]]

\* faulty variant: the increment lands on a copy of the record, the store is saved as it was
incrementUsageOnCopy(S, keyId, t, ok) ==
    LET i == Find(S.config.keys, keyId)
    IN  IF i # 0 THEN saveConfig(S, t, ok) ELSE S

\* faulty variant: the increment lands on the first record, whatever the id
incrementUsageFirst(S, keyId, t, ok) ==
    IF S.config.keys # <<>>
    THEN saveConfig([S EXCEPT !.config.keys[1].dailyUsage = @ + 1], t, ok)
    ELSE S

\* faulty variant: the store is saved first and the usage counted afterwards
incrementUsageSaveFirst(S, keyId, t, ok) ==
    LET i == Find(S.config.keys, keyId)
    IN  IF i # 0
        THEN [saveConfig(S, t, ok) EXCEPT !.config.keys[i].dailyUsage = @ + 1]
        ELSE S

incrementUsage(S, keyId, t, ok) ==
    LET i == Find(S.config.keys, keyId)
    IN  IF i # 0
        THEN saveConfig([S EXCEPT !.config.keys[i].dailyUsage = @ + 1], t, ok)
        ELSE S

\* faulty variant: the flag is cleared on a copy of the record, the store is saved as it was
disableKeyOnCopy(S, keyId, t, ok) ==
    LET i == Find(S.config.keys, keyId)
    IN  IF i # 0 THEN saveConfig(S, t, ok) ELSE S

\* faulty variant: the flag is flipped, not cleared
disableKeyToggle(S, keyId, t, ok) ==
    LET i == Find(S.config.keys, keyId)
    IN  IF i # 0
        THEN saveConfig([S EXCEPT !.config.keys[i].isActive = ~@], t, ok)
        ELSE S

disableKey(S, keyId, t, ok) ==
    LET i == Find(S.config.keys, keyId)
    IN  IF i # 0
        THEN saveConfig([S EXCEPT !.config.keys[i].isActive = FALSE], t, ok)
        ELSE S

\* dailyLimit of a record that setup creates
DefaultLimit == 100

\* String.prototype.trim, tabulated over the strings the inputs are drawn from
Trim(s) ==
    CASE s = " AIza2 " -> "AIza2"
      [] s = " cx2 "   -> "cx2"
      [] s = " "       -> ""
      [] OTHER         -> s

\* a[i]?.trim(), with "" for undefined (both are falsy); i counts from 1
TrimAt(a, i) == IF i \in DOMAIN a THEN Trim(a[i]) ELSE ""

\* x || y on strings
OrElse(x, y) == IF x # "" THEN x ELSE y

\* the record that setupKeys pushes for position i
NewKey(apiKeys, searchEngineIds, i, t) ==
    [id |-> KeyId(i),
     apiKey |-> Trim(apiKeys[i]),
     searchEngineId |-> OrElse(TrimAt(searchEngineIds, i),
                               OrElse(TrimAt(searchEngineIds, 1), "")),
     dailyUsage |-> 0,
     dailyLimit |-> DefaultLimit,
     lastReset |-> IsoDate(t),
     isActive |-> TRUE]

\* faulty variant: no fall-back to the first search engine id
setupKeysNoFallback(S, apiKeys, searchEngineIds, t, ok) ==
    saveConfig([S EXCEPT !.config.keys =
                  [i \in DOMAIN apiKeys |->
                     [NewKey(apiKeys, searchEngineIds, i, t) EXCEPT
                        !.searchEngineId = TrimAt(searchEngineIds, i)]]], t, ok)

setupKeys(S, apiKeys, searchEngineIds, t, ok) ==
    saveConfig([S EXCEPT !.config.keys =
                  [i \in DOMAIN apiKeys |-> NewKey(apiKeys, searchEngineIds, i, t)]],
               t, ok)

\* the record that setupGlobalConfig of setup.js pushes for position i
SetupFlowKey(apiKeys, searchEngineIds, i, t) ==
    [id |-> "key_" \o ToString(i),
     apiKey |-> Trim(apiKeys[i]),
     searchEngineId |-> OrElse(TrimAt(searchEngineIds, i),
                               OrElse(TrimAt(searchEngineIds, 1), "")),
     dailyUsage |-> 0,
     dailyLimit |-> 100,
     lastReset |-> IsoDate(t),
     isActive |-> TRUE]

\* faulty variant: the setup flow stores the secrets as they were typed
setupGlobalConfigUntrimmed(f, apiKeys, searchEngineIds, t, ok) ==
    LET keys == [i \in DOMAIN apiKeys |->
                   [SetupFlowKey(apiKeys, searchEngineIds, i, t) EXCEPT
                      !.apiKey = apiKeys[i]]]
    IN  IF ok
        THEN [kind |-> "json",
              data |-> Stringify([keys |-> keys, lastUpdated |-> t, version |-> "1.0.0"])]
        ELSE f

\* setupGlobalConfig of setup.js on file f: the records are built and the
\* file is written without a GlobalConfigManager; a failing write
\* (ok = FALSE) throws and leaves the file
setupGlobalConfig(f, apiKeys, searchEngineIds, t, ok) ==
    LET keys == [i \in DOMAIN apiKeys |-> SetupFlowKey(apiKeys, searchEngineIds, i, t)]
    IN  IF ok
        THEN [kind |-> "json",
              data |-> Stringify([keys |-> keys, lastUpdated |-> t, version |-> "1.0.0"])]
        ELSE f

\* faulty variant: the total counts the active records only
RECURSIVE SumUsageActive(_)
SumUsageActive(keys) ==
    IF keys = <<>> THEN 0
    ELSE (IF keys[1].isActive THEN keys[1].dailyUsage ELSE 0) + SumUsageActive(Tail(keys))

RECURSIVE SumUsage(_)
SumUsage(keys) ==
    IF keys = <<>> THEN 0 ELSE keys[1].dailyUsage + SumUsage(Tail(keys))

RECURSIVE SumLimit(_)
SumLimit(keys) ==
    IF keys = <<>> THEN 0 ELSE keys[1].dailyLimit + SumLimit(Tail(keys))

KeyStatus(k) ==
    [id |-> k.id, used |-> k.dailyUsage, limit |-> k.dailyLimit,
     remaining |-> k.dailyLimit - k.dailyUsage, active |-> k.isActive]

\* faulty variant: asking for the status counts as a use of the first record
getQuotaStatusCounts(S, t, ok) ==
    LET S1 == resetDailyUsageIfNeeded(S, t, ok)
        S2 == IF S1.config.keys = <<>> THEN S1
              ELSE [S1 EXCEPT !.config.keys[1].dailyUsage = @ + 1]
        keys == S2.config.keys
    IN  [S |-> S2,
         result |-> [totalUsed  |-> SumUsage(keys),
                     totalLimit |-> SumLimit(keys),
                     keysStatus |-> [i \in DOMAIN keys |-> KeyStatus(keys[i])]]]

getQuotaStatus(S, t, ok) ==
    LET S1 == resetDailyUsageIfNeeded(S, t, ok)
        keys == S1.config.keys
    IN  [S |-> S1,
         result |-> [totalUsed  |-> SumUsage(keys),
                     totalLimit |-> SumLimit(keys),
                     keysStatus |-> [i \in DOMAIN keys |-> KeyStatus(keys[i])]]]

hasValidConfig(c) ==
    /\ Len(c.keys) > 0
    /\ \E i \in DOMAIN c.keys : c.keys[i].apiKey # "" /\ c.keys[i].searchEngineId # ""

migrateIfNeeded(S, t, ok) ==
    IF S.config.version = ""
    THEN saveConfig([S EXCEPT !.config.version = Version], t, ok)
    ELSE S

\* faulty variant: the empty config of a failed load is saved at once
loadConfigSavesEmpty(f, t, ok) ==
    IF f.kind = "json"
    THEN resetDailyUsageIfNeeded(
             migrateIfNeeded([config |-> Parse(f.data), file |-> f, writes |-> 0],
                             t, ok), t, ok)
    ELSE saveConfig([config |-> EmptyConfig(t), file |-> f, writes |-> 0], t, ok)

loadConfig(f, t, ok) ==
    IF f.kind = "json"
    THEN resetDailyUsageIfNeeded(
             migrateIfNeeded([config |-> Parse(f.data), file |-> f, writes |-> 0],
                             t, ok), t, ok)
    ELSE [config |-> EmptyConfig(t), file |-> f, writes |-> 0]

\* ------------------------------------------------- the persisted file
\* The first instant of the run: day 1, so that a file can be a day old.
StartNow == TicksPerDay
MaxNow == (MaxDay + 1) * TicksPerDay - 1

\* A record as setup.js writes it (key_<i>, a non-empty secret and engine
\* id), as earlier runs left it on day d, or as a manual edit of dailyLimit
\* and dailyUsage (README) left it.
FileRecords(i, d) ==
    { [id |-> KeyId(i), apiKey |-> "AIza" \o ToString(i), searchEngineId |-> "cx",
       dailyUsage |-> u, dailyLimit |-> l, lastReset |-> d, isActive |-> a] :
        l \in 1..MaxLimit, u \in 0..MaxLimit, a \in BOOLEAN }

\* Every write of the program leaves one lastReset in all records: setup
\* stamps them together and a reset brings them all to the same day.
FileKeys(d) ==
    UNION { { ks \in [1..n -> UNION { FileRecords(i, d) : i \in 1..n }] :
                /\ \A i \in 1..n : ks[i] \in FileRecords(i, d)
                /\ \A i \in 1..n : ks[i].dailyUsage <= ks[i].dailyLimit } :
            n \in 0..MaxKeys }

Files ==
    { [kind |-> "absent", data |-> <<>>],
      [kind |-> "corrupt", data |-> <<>>] }
    \cup UNION { { [kind |-> "json",
                    data |-> Stringify([keys |-> ks, lastUpdated |-> d * TicksPerDay,
                                        version |-> v])] :
                   ks \in FileKeys(d), v \in {"", Version} } :
                 d \in 0..IsoDate(StartNow) }

\* ------------------------------------------------------ execute's state
NoError == [thrown |-> FALSE, code |-> 0]

\* error.code of a rejected upstream call: 0 stands for no numeric code (a
\* network error), 500 for any code other than 403.
ErrorCodes == {0, 403, 500}

NoQuota == [totalUsed |-> 0, totalLimit |-> 0, keysStatus |-> <<>>]

NoResponse == [content |-> "none", isError |-> FALSE, usedApiKey |-> "",
               quotaStatus |-> NoQuota]

NotDisabled == [day |-> -1, lastReset |-> -1]

\* no call made yet by a client of the manager
NoCall == [op |-> "none", seq |-> 0, keyId |-> "", apiKeys |-> <<>>,
           searchEngineIds |-> <<>>, key |-> NoKey, quota |-> NoQuota,
           valid |-> FALSE, writes |-> 0]

NoSnap == [taken |-> FALSE, again |-> FALSE, day |-> 0, quota |-> NoQuota]

\* saveConfig has not been called on the file
NotPersisted == [saved |-> FALSE, ok |-> FALSE, keys |-> <<>>]

\* the history after an operation that left S: the records of its last
\* saveConfig call, if it made one
PersistedAfter(S, ok) ==
    IF S.writes > 0 THEN [saved |-> TRUE, ok |-> ok, keys |-> S.config.keys]
    ELSE persisted

\* a process that is not inside writeFileSync
NoWrite == [open |-> FALSE, text |-> <<>>]

\* the record with the given id, in a sequence of records with unique ids
Rec(keys, id) == keys[CHOOSE i \in DOMAIN keys : keys[i].id = id]

\* The history variable after a store step: a record whose lastReset changed
\* was reset, and its count starts again.
AppliedAfter(a, before, after) ==
    [i \in 1..MaxKeys |->
        IF i \in DOMAIN after /\ i \in DOMAIN before
           /\ after[i].lastReset # before[i].lastReset
        THEN 0 ELSE a[i]]

Store == [config |-> config, file |-> file, writes |-> 0]

\* The store after a step, and the history that follows from it.
SetStore(S) ==
    /\ config' = S.config
    /\ file' = S.file
    /\ applied' = AppliedAfter(applied, config.keys, S.config.keys)

\* The state after the module is imported and before the constructor runs.
\* Every writeFileSync of this specification succeeds (diskOk); the catch
\* branch of saveConfig is modelled in saveConfig but not taken here.
Init ==
    /\ now = StartNow
    /\ file \in Files
    /\ diskOk = TRUE
    /\ config = EmptyConfig(0)
    /\ phase = "start"
    /\ validConfig = FALSE
    /\ running = 0
    /\ pc = [p \in Procs |-> "idle"]
    /\ apiKey = [p \in Procs |-> NoCredential]
    /\ caught = [p \in Procs |-> NoError]
    /\ catchKey = [p \in Procs |-> NoCredential]
    /\ response = [p \in Procs |-> NoResponse]
    /\ applied = [i \in 1..MaxKeys |-> 0]
    /\ disabled = [i \in 1..MaxKeys |-> NotDisabled]
    /\ call = NoCall
    /\ snap = NoSnap
    /\ persisted = NotPersisted
    /\ peer = EmptyConfig(0)
    /\ fd = [m \in 1..2 |-> NoWrite]

\* ------------------------------------------------------------- actions
\* The clock advances; crossing a multiple of TicksPerDay is the UTC midnight.
Tick ==
    /\ now < MaxNow
    /\ now' = now + 1
    /\ UNCHANGED clientVars
    /\ UNCHANGED <<file, diskOk, config, phase, validConfig, running, pc, apiKey, caught,
                   catchKey, response, applied, disabled>>

\* new GlobalConfigManager(): loadConfig
Load ==
    /\ phase = "start"
    /\ LET S == loadConfig(file, now, diskOk)
       IN  /\ config' = S.config
           /\ file' = S.file
    /\ phase' = "check"
    /\ UNCHANGED clientVars
    /\ UNCHANGED <<now, diskOk, validConfig, running, pc, apiKey, caught, catchKey,
                   response, applied, disabled>>

\* GoogleSearchConfig.checkConfiguration: hasValidConfig, and the early return
checkConfiguration ==
    /\ phase = "check"
    /\ validConfig' = hasValidConfig(config)
    /\ phase' = IF hasValidConfig(config) THEN "status" ELSE "serving"
    /\ UNCHANGED clientVars
    /\ UNCHANGED <<now, file, diskOk, config, running, pc, apiKey, caught, catchKey,
                   response, applied, disabled>>

\* GoogleSearchConfig.checkConfiguration: getQuotaStatus for the log line
checkQuotaStatus ==
    /\ phase = "status"
    /\ SetStore(getQuotaStatus(Store, now, diskOk).S)
    /\ phase' = "serving"
    /\ UNCHANGED clientVars
    /\ UNCHANGED <<now, diskOk, validConfig, running, pc, apiKey, caught, catchKey,
                   response, disabled>>

\* execute, up to the await: getAvailableKey, then either the upstream call
\* is started or the "all keys exhausted" Error is thrown into the catch.
ExecGetKey(p) ==
    /\ phase = "serving"
    /\ running = 0
    /\ pc[p] = "idle"
    /\ LET r == getAvailableKey(Store, now, diskOk)
       IN  /\ SetStore(r.S)
           /\ apiKey' = [apiKey EXCEPT ![p] = Credential(r.result)]
           /\ IF r.result = NoKey
              THEN /\ pc' = [pc EXCEPT ![p] = "catch"]
                   /\ caught' = [caught EXCEPT ![p] = [thrown |-> TRUE, code |-> 0]]
                   /\ running' = p
              ELSE /\ pc' = [pc EXCEPT ![p] = "await"]
                   /\ UNCHANGED <<caught, running>>
    /\ UNCHANGED clientVars
    /\ UNCHANGED <<now, diskOk, phase, validConfig, catchKey, response, disabled>>

\* customsearch.cse.list resolves
UpstreamResolve(p) ==
    /\ running = 0
    /\ pc[p] = "await"
    /\ pc' = [pc EXCEPT ![p] = "increment"]
    /\ running' = p
    /\ UNCHANGED clientVars
    /\ UNCHANGED <<now, file, diskOk, config, phase, validConfig, apiKey, caught, catchKey,
                   response, applied, disabled>>

\* customsearch.cse.list rejects
UpstreamReject(p) ==
    /\ running = 0
    /\ pc[p] = "await"
    /\ \E code \in ErrorCodes :
         caught' = [caught EXCEPT ![p] = [thrown |-> TRUE, code |-> code]]
    /\ pc' = [pc EXCEPT ![p] = "catch"]
    /\ running' = p
    /\ UNCHANGED clientVars
    /\ UNCHANGED <<now, file, diskOk, config, phase, validConfig, apiKey, catchKey,
                   response, applied, disabled>>

\* config.incrementUsage(apiKey.id)
ExecIncrement(p) ==
    /\ running = p
    /\ pc[p] = "increment"
    /\ LET S == incrementUsage(Store, apiKey[p].id, now, diskOk)
       IN  /\ config' = S.config
           /\ file' = S.file
    /\ applied' = [i \in 1..MaxKeys |->
                     IF KeyId(i) = apiKey[p].id THEN applied[i] + 1 ELSE applied[i]]
    /\ pc' = [pc EXCEPT ![p] = "status"]
    /\ UNCHANGED clientVars
    /\ UNCHANGED <<now, diskOk, phase, validConfig, running, apiKey, caught, catchKey, response, disabled>>

\* the success response: getQuotaStatus, content pushed, return
ExecStatus(p) ==
    /\ running = p
    /\ pc[p] = "status"
    /\ LET r == getQuotaStatus(Store, now, diskOk)
       IN  /\ SetStore(r.S)
           /\ response' = [response EXCEPT ![p] =
                             [content |-> "results", isError |-> FALSE,
                              usedApiKey |-> apiKey[p].id, quotaStatus |-> r.result]]
    /\ pc' = [pc EXCEPT ![p] = "done"]
    /\ UNCHANGED clientVars
    /\ UNCHANGED <<now, diskOk, phase, validConfig, running, apiKey, caught, catchKey, disabled>>

\* faulty variant: the catch block without the test of error.code
ExecCatchAnyCode(p) ==
    /\ running = p
    /\ pc[p] = "catch"
    /\ LET r == getAvailableKey(Store, now, diskOk)
       IN  /\ SetStore(r.S)
           /\ catchKey' = [catchKey EXCEPT ![p] = Credential(r.result)]
           /\ pc' = [pc EXCEPT ![p] = IF r.result = NoKey THEN "error" ELSE "disable"]
    /\ UNCHANGED clientVars
    /\ UNCHANGED <<now, diskOk, phase, validConfig, running, apiKey, caught, response,
                   disabled>>

\* catch, error.code === 403: getAvailableKey is asked again
ExecCatch403(p) ==
    /\ running = p
    /\ pc[p] = "catch"
    /\ caught[p].code = 403
    /\ LET r == getAvailableKey(Store, now, diskOk)
       IN  /\ SetStore(r.S)
           /\ catchKey' = [catchKey EXCEPT ![p] = Credential(r.result)]
           /\ pc' = [pc EXCEPT ![p] = IF r.result = NoKey THEN "error" ELSE "disable"]
    /\ UNCHANGED clientVars
    /\ UNCHANGED <<now, diskOk, phase, validConfig, running, apiKey, caught, response, disabled>>

\* catch, any other error
ExecCatchOther(p) ==
    /\ running = p
    /\ pc[p] = "catch"
    /\ caught[p].code # 403
    /\ pc' = [pc EXCEPT ![p] = "error"]
    /\ UNCHANGED clientVars
    /\ UNCHANGED <<now, file, diskOk, config, phase, validConfig, running, apiKey, caught,
                   catchKey, response, applied, disabled>>

\* config.disableKey(apiKey.id, ...) of the catch block
ExecDisable(p) ==
    /\ running = p
    /\ pc[p] = "disable"
    /\ SetStore(disableKey(Store, catchKey[p].id, now, diskOk))
    /\ disabled' = [i \in 1..MaxKeys |->
                      IF KeyId(i) = catchKey[p].id
                      THEN [day |-> IsoDate(now),
                            lastReset |-> Rec(config.keys, catchKey[p].id).lastReset]
                      ELSE disabled[i]]
    /\ pc' = [pc EXCEPT ![p] = "error"]
    /\ UNCHANGED clientVars
    /\ UNCHANGED <<now, diskOk, phase, validConfig, running, apiKey, caught, catchKey, response>>

\* faulty variant: the error response without response.isError = true
ExecErrorNoFlag(p) ==
    /\ running = p
    /\ pc[p] = "error"
    /\ LET r == getQuotaStatus(Store, now, diskOk)
       IN  /\ SetStore(r.S)
           /\ response' = [response EXCEPT ![p] =
                             [content |-> "error", isError |-> FALSE,
                              usedApiKey |-> "", quotaStatus |-> r.result]]
    /\ pc' = [pc EXCEPT ![p] = "done"]
    /\ UNCHANGED clientVars
    /\ UNCHANGED <<now, diskOk, phase, validConfig, running, apiKey, caught, catchKey,
                   disabled>>

\* the error response: getQuotaStatus, content pushed, isError, return
ExecError(p) ==
    /\ running = p
    /\ pc[p] = "error"
    /\ LET r == getQuotaStatus(Store, now, diskOk)
       IN  /\ SetStore(r.S)
           /\ response' = [response EXCEPT ![p] =
                             [content |-> "error", isError |-> TRUE,
                              usedApiKey |-> "", quotaStatus |-> r.result]]
    /\ pc' = [pc EXCEPT ![p] = "done"]
    /\ UNCHANGED clientVars
    /\ UNCHANGED <<now, diskOk, phase, validConfig, running, apiKey, caught, catchKey, disabled>>

\* return response: the segment ends, the caller has the response and the
\* slot serves the next invocation
Return(p) ==
    /\ running = p
    /\ pc[p] = "done"
    /\ running' = 0
    /\ pc' = [pc EXCEPT ![p] = "idle"]
    /\ apiKey' = [apiKey EXCEPT ![p] = NoCredential]
    /\ caught' = [caught EXCEPT ![p] = NoError]
    /\ catchKey' = [catchKey EXCEPT ![p] = NoCredential]
    /\ response' = [response EXCEPT ![p] = NoResponse]
    /\ UNCHANGED clientVars
    /\ UNCHANGED <<now, file, diskOk, config, phase, validConfig, applied, disabled>>

Next ==
    \/ Tick
    \/ Load
    \/ checkConfiguration
    \/ checkQuotaStatus
    \/ \E p \in Procs : ExecGetKey(p)
    \/ \E p \in Procs : UpstreamResolve(p)
    \/ \E p \in Procs : UpstreamReject(p)
    \/ \E p \in Procs : ExecIncrement(p)
    \/ \E p \in Procs : ExecStatus(p)
    \/ \E p \in Procs : ExecCatch403(p)
    \/ \E p \in Procs : ExecCatchOther(p)
    \/ \E p \in Procs : ExecDisable(p)
    \/ \E p \in Procs : ExecError(p)
    \/ \E p \in Procs : Return(p)

Spec == Init /\ [][Next]_vars

\* ------------------------------------------------ setupKeys on its own
\* setupKeys is a public method that the server never calls. It is applied
\* here to a constructed manager (phase = "check": the constructor has
\* returned), with inputs drawn from small sets of strings: secrets and
\* search engine ids with and without surrounding blanks, and blank ones.
Secrets == {"AIza1", " AIza2 ", ""}

ScopeIds == {"cx1", " cx2 ", " "}

\* the sequences over S of length at most n
SeqsUpTo(S, n) == UNION { [1..m -> S] : m \in 0..n }

SetupInputs == SeqsUpTo(Secrets, MaxKeys) \X SeqsUpTo(ScopeIds, MaxKeys)

\* a file of an earlier run: MaxKeys records, all used up and deactivated
UsedFile ==
    [kind |-> "json",
     data |-> Stringify([keys |-> [i \in 1..MaxKeys |->
                                     [id |-> KeyId(i), apiKey |-> "AIza" \o ToString(i),
                                      searchEngineId |-> "cx", dailyUsage |-> 1,
                                      dailyLimit |-> 1, lastReset |-> IsoDate(StartNow),
                                      isActive |-> FALSE]],
                         lastUpdated |-> StartNow, version |-> Version])]

\* what every run starts with, the file and the disk apart
Fresh ==
    /\ now = StartNow
    /\ config = EmptyConfig(0)
    /\ phase = "start"
    /\ validConfig = FALSE
    /\ running = 0
    /\ pc = [p \in Procs |-> "idle"]
    /\ apiKey = [p \in Procs |-> NoCredential]
    /\ caught = [p \in Procs |-> NoError]
    /\ catchKey = [p \in Procs |-> NoCredential]
    /\ response = [p \in Procs |-> NoResponse]
    /\ applied = [i \in 1..MaxKeys |-> 0]
    /\ disabled = [i \in 1..MaxKeys |-> NotDisabled]
    /\ call = NoCall
    /\ snap = NoSnap
    /\ persisted = NotPersisted
    /\ peer = EmptyConfig(0)
    /\ fd = [m \in 1..2 |-> NoWrite]

SetupInit ==
    /\ Fresh
    /\ file \in {[kind |-> "absent", data |-> <<>>], UsedFile}
    /\ diskOk \in BOOLEAN

\* what a call of a client leaves alone
serverVars == <<now, diskOk, phase, validConfig, running, pc, apiKey, caught, catchKey,
                response, applied, disabled, peer, fd>>

\* a call record: the method, its arguments, and a sequence bit that
\* changes with every call
Called(op) == [NoCall EXCEPT !.op = op, !.seq = 1 - call.seq]

\* manager.setupKeys(apiKeys, searchEngineIds), the inputs drawn from I
ClientSetupKeys(I) ==
    /\ phase = "check"
    /\ \E in \in I :
         LET S == setupKeys(Store, in[1], in[2], now, diskOk)
         IN  /\ config' = S.config
             /\ file' = S.file
             /\ persisted' = PersistedAfter(S, diskOk)
             /\ call' = [Called("setupKeys") EXCEPT !.writes = S.writes,
                                                    !.apiKeys = in[1],
                                                    !.searchEngineIds = in[2]]
    /\ snap' = NoSnap
    /\ UNCHANGED serverVars

\* the setup of a manager: one call of setupKeys
SetupOnce ==
    /\ call.op = "none"
    /\ ClientSetupKeys(SetupInputs)

\* node setup.js, a process of its own: setupGlobalConfig writes the file;
\* a manager that is running keeps its config
SetupFlow(I) ==
    /\ \E in \in I :
         /\ file' = setupGlobalConfig(file, in[1], in[2], now, diskOk)
         /\ call' = [Called("setupGlobalConfig") EXCEPT !.apiKeys = in[1],
                                                        !.searchEngineIds = in[2]]
    /\ snap' = NoSnap
    /\ UNCHANGED <<config, persisted>>
    /\ UNCHANGED serverVars

\* the setup of the file: one run of setup.js
SetupFlowOnce ==
    /\ call.op = "none"
    /\ SetupFlow(SetupInputs)

SetupNext ==
    \/ Tick
    \/ Load
    \/ SetupOnce
    \/ SetupFlowOnce

SetupSpec == SetupInit /\ [][SetupNext]_vars

\* ------------------------------------------- the manager and its callers
\* GlobalConfigManager under any caller: the public methods in any order,
\* with any id, on any day, and with the process ending and starting again
\* on the file it left. The disk is one of two kinds for the whole run:
\* every write succeeds, or every write fails (a read-only home directory).

\* a file of an earlier run or of setup.js, with dailyLimit edited by hand
\* (README) to MaxLimit: n unused records, stamped on day d
StoreFiles ==
    { [kind |-> "absent", data |-> <<>>],
      [kind |-> "corrupt", data |-> <<>>] }
    \cup { [kind |-> "json",
            data |-> Stringify(
                [keys |-> [i \in 1..n |->
                             [id |-> KeyId(i), apiKey |-> "AIza" \o ToString(i),
                              searchEngineId |-> "cx", dailyUsage |-> 0,
                              dailyLimit |-> MaxLimit, lastReset |-> d,
                              isActive |-> TRUE]],
                 lastUpdated |-> d * TicksPerDay, version |-> v])] :
            n \in 1..MaxKeys, d \in 0..IsoDate(StartNow),
            v \in {"", Version} }

StoreInit ==
    /\ Fresh
    /\ file \in StoreFiles
    /\ diskOk \in BOOLEAN

\* the ids a caller passes: those of MaxKeys records, and one that no record has
ClientIds == { KeyId(i) : i \in 1..(MaxKeys + 1) }

\* setupKeys inputs of a caller: k secrets and one search engine id
StoreInputs == { <<[i \in 1..k |-> "AIza1"], <<"cx1">> >> : k \in 0..MaxKeys }

\* the UTC date changes
Midnight ==
    /\ IsoDate(now) < MaxDay
    /\ now' = (IsoDate(now) + 1) * TicksPerDay
    /\ UNCHANGED <<file, diskOk, config, phase, validConfig, running, pc, apiKey, caught,
                   catchKey, response, applied, disabled, call, snap, persisted, peer, fd>>

\* the process exits; the next one constructs its manager from the file
Restart ==
    /\ phase = "check"
    /\ phase' = "start"
    /\ config' = EmptyConfig(0)
    /\ call' = NoCall
    /\ snap' = NoSnap
    /\ UNCHANGED <<now, file, diskOk, validConfig, running, pc, apiKey, caught,
                   catchKey, response, applied, disabled, persisted, peer, fd>>

\* new GlobalConfigManager() of a process of this run: loadConfig
Construct ==
    /\ phase = "start"
    /\ LET S == loadConfig(file, now, diskOk)
       IN  /\ config' = S.config
           /\ file' = S.file
           /\ persisted' = PersistedAfter(S, diskOk)
    /\ phase' = "check"
    /\ UNCHANGED <<now, diskOk, validConfig, running, pc, apiKey, caught, catchKey,
                   response, applied, disabled, call, snap, peer, fd>>

\* manager.getAvailableKey()
ClientGetAvailableKey ==
    /\ phase = "check"
    /\ LET r == getAvailableKey(Store, now, diskOk)
       IN  /\ config' = r.S.config
           /\ file' = r.S.file
           /\ persisted' = PersistedAfter(r.S, diskOk)
           /\ call' = [Called("getAvailableKey") EXCEPT !.key = r.result,
                                                          !.writes = r.S.writes]
    /\ UNCHANGED snap
    /\ UNCHANGED serverVars

\* manager.incrementUsage(keyId); a caller stops counting past MaxLimit
ClientIncrementUsage ==
    /\ phase = "check"
    /\ \E id \in ClientIds :
         /\ \A i \in DOMAIN config.keys :
               config.keys[i].id = id => config.keys[i].dailyUsage <= MaxLimit
         /\ LET S == incrementUsage(Store, id, now, diskOk)
            IN  /\ config' = S.config
                /\ file' = S.file
                /\ persisted' = PersistedAfter(S, diskOk)
                /\ call' = [Called("incrementUsage") EXCEPT !.keyId = id,
                                                            !.writes = S.writes]
    /\ snap' = NoSnap
    /\ UNCHANGED serverVars

\* manager.disableKey(keyId, reason)
ClientDisableKey ==
    /\ phase = "check"
    /\ \E id \in ClientIds :
         /\ LET S == disableKey(Store, id, now, diskOk)
            IN  /\ config' = S.config
                /\ file' = S.file
                /\ persisted' = PersistedAfter(S, diskOk)
                /\ call' = [Called("disableKey") EXCEPT !.keyId = id,
                                                        !.writes = S.writes]
    /\ snap' = NoSnap
    /\ UNCHANGED serverVars

\* manager.getQuotaStatus()
ClientGetQuotaStatus ==
    /\ phase = "check"
    /\ LET r == getQuotaStatus(Store, now, diskOk)
       IN  /\ config' = r.S.config
           /\ file' = r.S.file
           /\ persisted' = PersistedAfter(r.S, diskOk)
           /\ call' = [Called("getQuotaStatus") EXCEPT !.quota = r.result,
                                                         !.writes = r.S.writes]
           /\ snap' = [taken |-> TRUE,
                       again |-> snap.taken /\ snap.day = IsoDate(now),
                       day |-> IsoDate(now), quota |-> r.result]
    /\ UNCHANGED serverVars

\* manager.hasValidConfig()
ClientHasValidConfig ==
    /\ phase = "check"
    /\ call' = [Called("hasValidConfig") EXCEPT !.valid = hasValidConfig(config)]
    /\ UNCHANGED <<config, file, snap, persisted>>
    /\ UNCHANGED serverVars

StoreNext ==
    \/ Midnight
    \/ Construct
    \/ Restart
    \/ ClientSetupKeys(StoreInputs)
    \/ ClientGetAvailableKey
    \/ ClientIncrementUsage
    \/ ClientDisableKey
    \/ ClientGetQuotaStatus
    \/ ClientHasValidConfig

StoreSpec == StoreInit /\ [][StoreNext]_vars

\* The manager and its callers with the clock of the server: time passes
\* between any two calls, within a day and into the next, so that lastUpdated
\* can be older than the call that follows. The file is one of the current
\* version.
TimedFiles == { f \in StoreFiles : f.kind = "json" /\ Parse(f.data).version = Version }

TimedInit ==
    /\ Fresh
    /\ file \in TimedFiles
    /\ diskOk \in BOOLEAN

TimedNext ==
    \/ Tick
    \/ StoreNext

TimedSpec == TimedInit /\ [][TimedNext]_vars

\* ------------------------------------------ the server on an edited file
\* The server on a file that setup.js wrote today and that was then edited
\* by hand (README): any secret or search engine id may have been left empty.
EditedFiles ==
    { [kind |-> "json",
       data |-> Stringify(
           [keys |-> [i \in 1..n |->
                        [id |-> KeyId(i), apiKey |-> a[i], searchEngineId |-> e[i],
                         dailyUsage |-> 0, dailyLimit |-> MaxLimit,
                         lastReset |-> IsoDate(StartNow), isActive |-> TRUE]],
            lastUpdated |-> StartNow, version |-> Version])] :
       n \in 1..MaxKeys, a \in [1..MaxKeys -> {"AIza", ""}],
       e \in [1..MaxKeys -> {"cx", ""}] }

EditedInit ==
    /\ Fresh
    /\ file \in EditedFiles
    /\ diskOk = TRUE

EditedSpec == EditedInit /\ [][Next]_vars

\* --------------------------------------- two processes sharing the file
\* Two server processes (two MCP clients of one user) on the same file, with
\* writes that succeed. fs.writeFileSync(path, data) opens the file with flag
\* 'w', which truncates it, then writes the data from offset 0 and closes;
\* the process does nothing else in between, the other process may.

RECURSIVE Digits(_)
\* the number of characters of String(n)
Digits(n) == IF n < 10 THEN 1 ELSE 1 + Digits(n \div 10)

\* the number of characters of a record in JSON.stringify(config, null, 2):
\* the values (lastReset is a quoted date of 10 characters) and, in 171
\* characters, the names, punctuation, indentation and line ends
StringifyKeyLength(k) ==
    171 + Len(k.id) + Len(k.apiKey) + Len(k.searchEngineId)
        + Digits(k.dailyUsage) + Digits(k.dailyLimit)
        + (IF k.isActive THEN 4 ELSE 5)

RECURSIVE StringifyKeysLength(_)
StringifyKeysLength(keys) ==
    IF keys = <<>> THEN 0
    ELSE StringifyKeyLength(Head(keys)) + StringifyKeysLength(Tail(keys))

\* the number of characters of JSON.stringify(c, null, 2): the braces, the
\* keys array (records separated by a comma and a line end), lastUpdated (a
\* quoted timestamp of 24 characters) and version
StringifyLength(c) ==
    2 + (IF c.keys = <<>> THEN 14
         ELSE 12 + StringifyKeysLength(c.keys) + 2 * (Len(c.keys) - 1) + 1 + 5)
      + 43 + (IF c.version = "" THEN 1 ELSE 2 + 15 + Len(c.version) + 1)
      + 1

\* the size of the file. A file that does not parse has in data its size, if
\* it is not empty.
Size(f) ==
    IF f.kind = "json" THEN StringifyLength(Parse(f.data))
    ELSE Get(f.data, "size", 0)

\* open(path, 'w'): the file is empty
Truncated == [kind |-> "corrupt", data |-> <<>>]

\* write(fd, text) at offset 0 of file f: the text replaces the first
\* characters of the file; what the file had beyond them stays, and a text
\* followed by the tail of another does not parse
Written(f, text) ==
    IF StringifyLength(Parse(text)) < Size(f)
    THEN [kind |-> "corrupt", data |-> << <<"size", Size(f)>> >>]
    ELSE [kind |-> "json", data |-> text]

\* the most records of the file that two processes share
SharedKeys == 1

\* a file that setup.js wrote today: n unused records
SharedFiles ==
    { [kind |-> "json",
       data |-> Stringify(
           [keys |-> [i \in 1..n |->
                        [id |-> KeyId(i), apiKey |-> "AIza" \o ToString(i),
                         searchEngineId |-> "cx", dailyUsage |-> 0,
                         dailyLimit |-> MaxLimit, lastReset |-> IsoDate(StartNow),
                         isActive |-> TRUE]],
            lastUpdated |-> StartNow, version |-> Version])] :
       n \in 1..SharedKeys }

\* both processes have constructed their manager from the file
SharedInit ==
    /\ now = StartNow
    /\ file \in SharedFiles
    /\ diskOk = TRUE
    /\ config = loadConfig(file, now, diskOk).config
    /\ peer = config
    /\ fd = [m \in 1..2 |-> NoWrite]
    /\ phase = "check"
    /\ validConfig = FALSE
    /\ running = 0
    /\ pc = [p \in Procs |-> "idle"]
    /\ apiKey = [p \in Procs |-> NoCredential]
    /\ caught = [p \in Procs |-> NoError]
    /\ catchKey = [p \in Procs |-> NoCredential]
    /\ response = [p \in Procs |-> NoResponse]
    /\ applied = [i \in 1..MaxKeys |-> 0]
    /\ disabled = [i \in 1..MaxKeys |-> NotDisabled]
    /\ call = NoCall
    /\ snap = NoSnap
    /\ persisted = NotPersisted

\* what the two processes leave alone
sharedUnchanged == <<now, diskOk, phase, validConfig, running, pc, apiKey, caught,
                     catchKey, response, applied, disabled, call, snap, persisted>>

\* this.config of process m
Mem(m) == IF m = 1 THEN config ELSE peer

\* the store as process m sees it at a call
StoreOf(m) == [config |-> Mem(m), file |-> file, writes |-> 0]

\* Process m runs an operation that leaves S, up to the open of
\* writeFileSync in its saveConfig if it calls it: this.config is changed,
\* the file is truncated and the text is still to be written.
SharedRun(m, S) ==
    /\ config' = IF m = 1 THEN S.config ELSE config
    /\ peer' = IF m = 2 THEN S.config ELSE peer
    /\ IF S.writes > 0
       THEN /\ file' = Truncated
            /\ fd' = [fd EXCEPT ![m] = [open |-> TRUE, text |-> S.file.data]]
       ELSE UNCHANGED <<file, fd>>
    /\ UNCHANGED sharedUnchanged

\* process m: writeFileSync writes its text and closes the file
SharedWrite(m) ==
    /\ fd[m].open
    /\ file' = Written(file, fd[m].text)
    /\ fd' = [fd EXCEPT ![m].open = FALSE]
    /\ UNCHANGED <<config, peer>>
    /\ UNCHANGED sharedUnchanged

\* process m ends and starts again: new GlobalConfigManager()
SharedLoad(m) ==
    /\ ~fd[m].open
    /\ SharedRun(m, loadConfig(file, now, diskOk))

\* process m: manager.getAvailableKey()
SharedGetAvailableKey(m) ==
    /\ ~fd[m].open
    /\ SharedRun(m, getAvailableKey(StoreOf(m), now, diskOk).S)

\* process m: manager.getQuotaStatus()
SharedGetQuotaStatus(m) ==
    /\ ~fd[m].open
    /\ SharedRun(m, getQuotaStatus(StoreOf(m), now, diskOk).S)

\* process m: manager.incrementUsage(keyId); a caller stops counting past MaxLimit
SharedIncrementUsage(m) ==
    /\ ~fd[m].open
    /\ \E id \in ClientIds :
         /\ \A i \in DOMAIN Mem(m).keys :
               Mem(m).keys[i].id = id => Mem(m).keys[i].dailyUsage <= MaxLimit
         /\ SharedRun(m, incrementUsage(StoreOf(m), id, now, diskOk))

\* process m: manager.disableKey(keyId, reason)
SharedDisableKey(m) ==
    /\ ~fd[m].open
    /\ \E id \in ClientIds :
         SharedRun(m, disableKey(StoreOf(m), id, now, diskOk))

\* the UTC date changes
SharedMidnight ==
    /\ IsoDate(now) < MaxDay
    /\ now' = (IsoDate(now) + 1) * TicksPerDay
    /\ UNCHANGED <<file, config, peer, fd, diskOk, phase, validConfig, running, pc,
                   apiKey, caught, catchKey, response, applied, disabled, call,
                   snap, persisted>>

SharedNext ==
    \/ SharedMidnight
    \/ \E m \in 1..2 :
         \/ SharedLoad(m)
         \/ SharedGetAvailableKey(m)
         \/ SharedGetQuotaStatus(m)
         \/ SharedIncrementUsage(m)
         \/ SharedDisableKey(m)
         \/ SharedWrite(m)

SharedSpec == SharedInit /\ [][SharedNext]_vars

\* ===================================================================
\* Properties
\* ===================================================================
Today == IsoDate(now)

\* an eligible credential: active and under its daily limit
Eligible(k) == k.isActive /\ k.dailyUsage < k.dailyLimit

\* the record of day `today` that the rollover reset makes of k
Rolled(k, today) ==
    IF k.lastReset = today THEN k
    ELSE [id |-> k.id, apiKey |-> k.apiKey, searchEngineId |-> k.searchEngineId,
          dailyUsage |-> 0, dailyLimit |-> k.dailyLimit, lastReset |-> today,
          isActive |-> TRUE]

\* a step in which invocation p calls getAvailableKey in the try block
TryGetKeyStep(p) == pc[p] = "idle" /\ pc'[p] # "idle"

\* a step in which invocation p calls getAvailableKey in the catch block
CatchGetKeyStep(p) == pc[p] = "catch" /\ caught[p].code = 403 /\ pc'[p] # "catch"

\* what a getAvailableKey step answered with, given the stores before and
\* after it: c is the credential returned (NoCredential for null)
AnswersFirstEligible(before, after, c) ==
    /\ DOMAIN after = DOMAIN before
    /\ \A i \in DOMAIN after : after[i] = Rolled(before[i], Today)
    /\ (c = NoCredential) <=> (\A i \in DOMAIN after : ~Eligible(after[i]))
    /\ c # NoCredential =>
          \E i \in DOMAIN after :
             /\ c = [id |-> after[i].id, apiKey |-> after[i].apiKey,
                     searchEngineId |-> after[i].searchEngineId]
             /\ Eligible(after[i])
             /\ \A j \in 1..(i-1) : ~Eligible(after[j])

\* C1: getAvailableKey first applies the day-rollover reset to every record,
\* then returns the first record in store order that is active and under its
\* limit, and null exactly when no record is; no earlier record is eligible.
C1_FirstEligible ==
    [][\A p \in Procs :
         /\ TryGetKeyStep(p) =>
              AnswersFirstEligible(config.keys, config'.keys, apiKey'[p])
         /\ CatchGetKeyStep(p) =>
              AnswersFirstEligible(config.keys, config'.keys, catchKey'[p])]_vars

\* C1 witness: an upstream call is in flight with key_2, which was selected
\* although key_1 comes first, because key_1 is not eligible.
C1_Witness ==
    \E p \in Procs :
       /\ pc[p] = "await"
       /\ apiKey[p].id = KeyId(2)
       /\ Len(config.keys) >= 2
       /\ ~Eligible(config.keys[1])
       /\ config.keys[1].lastReset = Today

\* C2: once incrementUsage has been applied to a credential as many times as
\* its limit since its last reset, getAvailableKey does not return it until a
\* rollover reset of it, and returns the next eligible credential in store
\* order instead while one exists.
C2_ExhaustedNotReturned ==
    [][\A p \in Procs :
         TryGetKeyStep(p) \/ CatchGetKeyStep(p) =>
           LET c == IF TryGetKeyStep(p) THEN apiKey'[p] ELSE catchKey'[p]
               keys == config'.keys
               spent == { i \in DOMAIN keys : applied'[i] >= keys[i].dailyLimit }
               open == { i \in DOMAIN keys : Eligible(keys[i]) }
           IN  /\ \A i \in spent : c.id # keys[i].id
               /\ spent # {} /\ open # {} =>
                    \E i \in open : /\ c.id = keys[i].id
                                    /\ i \notin spent
                                    /\ \A j \in open : i <= j]_vars

\* C2 witness: key_1 has had as many incrementUsage calls as its limit, more
\* than one, and the call in flight was given key_2.
C2_Witness ==
    \E p \in Procs :
       /\ pc[p] = "await"
       /\ apiKey[p].id = KeyId(2)
       /\ Len(config.keys) >= 2
       /\ config.keys[1].dailyLimit >= 2
       /\ config.keys[1].isActive
       /\ applied[1] >= config.keys[1].dailyLimit

\* C3 (as claimed): when the upstream call made with credential K fails with
\* 403, execute deactivates K, the credential of its try block, and
\* deactivates no other credential.
C3_DeactivatesUsedKey ==
    [][\A p \in Procs :
         (caught[p].code = 403 /\ pc[p] \in {"catch", "disable"} /\ pc'[p] = "error") =>
            \A i \in DOMAIN config'.keys :
               IF config'.keys[i].id = apiKey[p].id
               THEN ~config'.keys[i].isActive
               ELSE ~(config.keys[i].isActive /\ ~config'.keys[i].isActive)]_vars

\* the records an access reads: those of the file for load, else the store's
Before == IF phase = "start"
          THEN (IF file.kind = "json" THEN Parse(file.data).keys ELSE <<>>)
          ELSE config.keys

\* steps that call loadConfig, getAvailableKey or getQuotaStatus
ResettingAccess ==
    \/ phase = "start" /\ phase' = "check"
    \/ phase = "status" /\ phase' = "serving"
    \/ \E p \in Procs : \/ TryGetKeyStep(p)
                        \/ CatchGetKeyStep(p)
                        \/ pc[p] \in {"status", "error"} /\ pc'[p] = "done"

\* steps that call hasValidConfig, incrementUsage or disableKey
PlainAccess ==
    \/ phase = "check" /\ phase' # "check"
    \/ \E p \in Procs : \/ pc[p] = "increment" /\ pc'[p] = "status"
                        \/ pc[p] = "disable" /\ pc'[p] = "error"

\* C4 (as claimed): a credential whose lastReset is an earlier date than
\* today becomes isActive=true, dailyUsage=0, lastReset=today on the next
\* store access by any operation.
C4_AnyAccessResets ==
    [][ResettingAccess \/ PlainAccess =>
         \A i \in DOMAIN Before :
            Before[i].lastReset # Today =>
               /\ config'.keys[i].isActive
               /\ config'.keys[i].dailyUsage = 0
               /\ config'.keys[i].lastReset = Today]_vars

\* C4 (amended): a credential whose lastReset is an earlier date than today
\* becomes isActive=true, dailyUsage=0, lastReset=today on the next access by
\* load, getAvailableKey or getQuotaStatus; hasValidConfig, incrementUsage
\* and disableKey leave lastReset as it is and neither zero dailyUsage nor
\* re-activate the record.
C4_ResettingAccessResets ==
    [][(ResettingAccess =>
          /\ DOMAIN config'.keys = DOMAIN Before
          /\ \A i \in DOMAIN Before :
                Before[i].lastReset # Today =>
                   /\ config'.keys[i].isActive
                   /\ config'.keys[i].dailyUsage = 0
                   /\ config'.keys[i].lastReset = Today)
       /\ (PlainAccess =>
          /\ DOMAIN config'.keys = DOMAIN config.keys
          /\ \A i \in DOMAIN config.keys :
                /\ config'.keys[i].lastReset = config.keys[i].lastReset
                /\ config'.keys[i].dailyUsage >= config.keys[i].dailyUsage
                /\ (config'.keys[i].isActive => config.keys[i].isActive))]_vars

\* C4 witness: a record that incrementUsage touched while its lastReset was
\* yesterday's (usage counted, not reset), about to be reset by the
\* getQuotaStatus of the same invocation.
C4_Witness ==
    \E p \in Procs :
       /\ pc[p] = "status"
       /\ Rec(config.keys, apiKey[p].id).lastReset # Today
       /\ Rec(config.keys, apiKey[p].id).dailyUsage > 0

C7_UsageWithinLimit ==
    \A i \in DOMAIN config.keys :
       /\ 0 <= config.keys[i].dailyUsage
       /\ config.keys[i].dailyUsage <= config.keys[i].dailyLimit

\* a step in which invocation p calls getAvailableKey, and its answer
GetKeyStep(p) == TryGetKeyStep(p) \/ CatchGetKeyStep(p)

Answer(p) == IF TryGetKeyStep(p) THEN apiKey'[p] ELSE catchKey'[p]

\* what C6 says of getAvailableKey besides the deactivated credential: null
\* when every credential is deactivated or at its limit, and the first
\* credential, with dailyUsage = 0, once the date is past the records' day
C6_NoneAndNextDay(p) ==
    /\ (\A i \in DOMAIN config'.keys : ~Eligible(config'.keys[i])) =>
          Answer(p) = NoCredential
    /\ (config.keys # <<>> /\ \A i \in DOMAIN config.keys :
                                  config.keys[i].lastReset < Today) =>
          /\ Answer(p).id = config'.keys[1].id
          /\ config'.keys[1].dailyUsage = 0

\* C6 (as claimed): after disableKey on a credential, getAvailableKey never
\* returns that credential during the same UTC day, whatever its dailyUsage;
\* it returns none if every credential is deactivated or at its limit; after
\* the date advances it returns the first credential again with dailyUsage 0.
C6_DisabledNotReturnedSameDay ==
    [][\A p \in Procs :
         GetKeyStep(p) =>
            /\ \A i \in DOMAIN config'.keys :
                  Answer(p).id = config'.keys[i].id => disabled[i].day # Today
            /\ C6_NoneAndNextDay(p)]_vars

\* C6 (amended): after disableKey on a credential whose lastReset is the
\* current UTC date, getAvailableKey never returns that credential during the
\* same UTC day, whatever its dailyUsage; the rest as claimed.
C6_DisabledFreshNotReturnedSameDay ==
    [][\A p \in Procs :
         GetKeyStep(p) =>
            /\ \A i \in DOMAIN config'.keys :
                  Answer(p).id = config'.keys[i].id =>
                     ~(disabled[i].day = Today /\ disabled[i].lastReset = Today)
            /\ C6_NoneAndNextDay(p)]_vars

\* C6 witness: key_1 was deactivated today while under its limit, and the
\* call in flight was given key_2.
C6_Witness ==
    \E p \in Procs :
       /\ pc[p] = "await"
       /\ apiKey[p].id = KeyId(2)
       /\ disabled[1].day = Today
       /\ disabled[1].lastReset = Today
       /\ config.keys[1].dailyUsage < config.keys[1].dailyLimit

\* C8: incrementUsage is applied once per execute invocation whose upstream
\* call succeeded, to the acquired credential, raising its dailyUsage by 1
\* and changing no other record; it is not applied when the upstream call
\* failed or no credential was available.
C8_IncrementOncePerSuccess ==
    [][/\ \A p \in Procs :
            /\ (pc[p] = "increment" /\ pc'[p] = "status") =>
                  /\ \E i \in DOMAIN config.keys : config.keys[i].id = apiKey[p].id
                  /\ \A i \in DOMAIN config.keys :
                        config'.keys[i] =
                           IF config.keys[i].id = apiKey[p].id
                           THEN [config.keys[i] EXCEPT !.dailyUsage = @ + 1]
                           ELSE config.keys[i]
            /\ (pc[p] = "await" /\ pc'[p] # "await") =>
                  (pc'[p] = "increment") <=> ~caught'[p].thrown
            /\ (pc[p] # "increment" /\ pc'[p] = "increment") => pc[p] = "await"
            /\ pc[p] = "increment" => pc'[p] \in {"increment", "status"}
            /\ pc[p] = "status" => pc'[p] \in {"status", "done"}
            /\ pc[p] = "done" => pc'[p] \in {"done", "idle"}
            /\ caught[p].thrown => pc'[p] \in {"catch", "disable", "error", "done", "idle"}
       /\ phase = "serving" =>
            \A i \in DOMAIN config.keys :
               config'.keys[i].dailyUsage > config.keys[i].dailyUsage =>
                  \E p \in Procs : /\ pc[p] = "increment" /\ pc'[p] = "status"
                                   /\ apiKey[p].id = config.keys[i].id]_vars

\* C8 witness: an invocation that was given key_2 has just applied
\* incrementUsage: key_2 counts one call more and key_1 is as it was.
C8_Witness ==
    \E p \in Procs :
       /\ pc[p] = "status"
       /\ apiKey[p].id = KeyId(2)
       /\ applied[2] = 1
       /\ config.keys[2].dailyUsage = 1
       /\ applied[1] = 0

\* C9: a credential is deactivated only in the handling of an upstream
\* failure with error code 403; the handling of any other failure (a network
\* error, any other code, the local "no credential" error) deactivates no
\* credential and changes no isActive flag itself.
C9_DeactivateOnlyOn403 ==
    [][/\ phase # "start" =>
            \A i \in DOMAIN config.keys :
               (config.keys[i].isActive /\ ~config'.keys[i].isActive) =>
                  \E p \in Procs : /\ pc[p] = "disable" /\ pc'[p] = "error"
                                   /\ caught[p].thrown /\ caught[p].code = 403
       /\ \A p \in Procs :
            (caught[p].thrown /\ caught[p].code # 403 /\ pc'[p] # pc[p]) =>
               /\ pc[p] = "catch" => config' = config
               /\ pc'[p] # "disable"
               /\ \A i \in DOMAIN config.keys :
                     config'.keys[i].isActive # config.keys[i].isActive =>
                        /\ config.keys[i].lastReset # Today
                        /\ config'.keys[i] = Rolled(config.keys[i], Today)]_vars

\* C9 witness: an invocation whose upstream call failed with code 500 is
\* about to return, and the credential it used is still active.
C9_Witness ==
    \E p \in Procs :
       /\ pc[p] = "done"
       /\ caught[p].code = 500
       /\ response[p].isError
       /\ Rec(config.keys, apiKey[p].id).isActive
       /\ Rec(config.keys, apiKey[p].id).lastReset = Today

RECURSIVE UsedThrough(_, _)
UsedThrough(keys, n) == IF n = 0 THEN 0 ELSE keys[n].dailyUsage + UsedThrough(keys, n - 1)

RECURSIVE LimitThrough(_, _)
LimitThrough(keys, n) == IF n = 0 THEN 0 ELSE keys[n].dailyLimit + LimitThrough(keys, n - 1)

\* the quota snapshot of the store as it is
Snapshot ==
    [totalUsed |-> UsedThrough(config.keys, Len(config.keys)),
     totalLimit |-> LimitThrough(config.keys, Len(config.keys)),
     keysStatus |-> [i \in DOMAIN config.keys |->
                       [id |-> config.keys[i].id,
                        used |-> config.keys[i].dailyUsage,
                        limit |-> config.keys[i].dailyLimit,
                        remaining |-> config.keys[i].dailyLimit - config.keys[i].dailyUsage,
                        active |-> config.keys[i].isActive]]]

\* C10: with an empty store hasValidConfig is false and getAvailableKey
\* returns null; whenever getAvailableKey returns null, execute makes no
\* upstream call and returns a response with isError = true that carries the
\* current quota snapshot.
C10_NoKeyErrorResponse ==
    /\ (phase = "serving" /\ config.keys = <<>>) => ~validConfig
    /\ \A p \in Procs :
          /\ (config.keys = <<>> /\ pc[p] # "idle") => apiKey[p] = NoCredential
          /\ pc[p] \in {"await", "increment", "status"} => apiKey[p] # NoCredential
          /\ (pc[p] # "idle" /\ apiKey[p] = NoCredential) =>
                /\ pc[p] \in {"catch", "error", "done"}
                /\ caught[p] = [thrown |-> TRUE, code |-> 0]
          /\ (pc[p] = "done" /\ apiKey[p] = NoCredential) =>
                /\ response[p].isError
                /\ response[p].content = "error"
                /\ response[p].quotaStatus = Snapshot

\* C10 witness: an invocation found every credential of a non-empty store
\* deactivated or at its limit and is about to return the error response.
C10_Witness ==
    \E p \in Procs :
       /\ pc[p] = "done"
       /\ apiKey[p] = NoCredential
       /\ response[p].isError
       /\ Len(config.keys) = 2
       /\ response[p].quotaStatus.totalUsed > 0

\* a step that is a call of the named method by a client
CallStep(op) == call'.op = op /\ call'.seq # call.seq

\* what C11 says of the records besides the search engine id: k records,
\* ids key_1..key_k in input order, all distinct, each with dailyUsage=0,
\* dailyLimit=100, lastReset=today, isActive=true
C11_Records ==
    LET k == Len(call'.apiKeys)
    IN  /\ DOMAIN config'.keys = 1..k
        /\ \A i \in 1..k :
              /\ config'.keys[i].id = "key_" \o ToString(i)
              /\ config'.keys[i].dailyUsage = 0
              /\ config'.keys[i].dailyLimit = 100
              /\ config'.keys[i].lastReset = Today
              /\ config'.keys[i].isActive
        /\ \A i, n \in 1..k : i # n => config'.keys[i].id # config'.keys[n].id

\* C11 (as claimed): setupKeys with k secrets and j search engine ids
\* replaces the records by exactly k new ones, key_1..key_k in input order;
\* record i gets search engine id i when there is one at that position,
\* otherwise the first one, and the empty string when j = 0; every new record
\* has dailyUsage=0, dailyLimit=100, lastReset=today, isActive=true.
C11_PositionalScopeId ==
    [][CallStep("setupKeys") =>
         LET e == call'.searchEngineIds
         IN  /\ C11_Records
             /\ \A i \in DOMAIN config'.keys :
                   config'.keys[i].searchEngineId =
                      IF i <= Len(e) THEN Trim(e[i])
                      ELSE IF Len(e) = 0 THEN "" ELSE Trim(e[1])]_vars

\* C11 (amended): as claimed, except that record i gets search engine id i,
\* trimmed, only when there is one at that position that is not blank;
\* otherwise it gets the first one, trimmed (the empty string when that is
\* blank or j = 0); and record i gets secret i, trimmed.
C11_NonBlankPositionalScopeId ==
    [][CallStep("setupKeys") =>
         LET e == call'.searchEngineIds
         IN  /\ C11_Records
             /\ \A i \in DOMAIN config'.keys :
                   /\ config'.keys[i].apiKey = Trim(call'.apiKeys[i])
                   /\ config'.keys[i].searchEngineId =
                         IF i <= Len(e) /\ Trim(e[i]) # "" THEN Trim(e[i])
                         ELSE IF Len(e) = 0 THEN "" ELSE Trim(e[1])]_vars

\* C11 witness: setupKeys was called with two secrets and one search engine
\* id on a manager that had loaded other records, and the second record has
\* the first search engine id.
C11_Witness ==
    /\ call.op = "setupKeys"
    /\ Len(call.apiKeys) = 2
    /\ call.searchEngineIds = <<" cx2 ">>
    /\ Len(config.keys) = 2
    /\ config.keys[2].searchEngineId = "cx2"
    /\ config.keys[2].dailyLimit = 100
    /\ file # [kind |-> "absent", data |-> <<>>]

\* C12: getQuotaStatus applies the rollover reset and returns totalUsed, the
\* sum of all records' dailyUsage after the reset, totalLimit, the sum of
\* all dailyLimit, and one entry per record in store order with
\* used = dailyUsage, limit = dailyLimit, remaining = limit - used and
\* active = isActive.
C12_SnapshotOfStore ==
    [][CallStep("getQuotaStatus") =>
         LET keys == config'.keys
             q    == call'.quota
         IN  /\ DOMAIN keys = DOMAIN config.keys
             /\ \A i \in DOMAIN keys : keys[i] = Rolled(config.keys[i], Today)
             /\ q.totalUsed = UsedThrough(keys, Len(keys))
             /\ q.totalLimit = LimitThrough(keys, Len(keys))
             /\ DOMAIN q.keysStatus = DOMAIN keys
             /\ \A i \in DOMAIN keys :
                   /\ q.keysStatus[i].id = keys[i].id
                   /\ q.keysStatus[i].used = keys[i].dailyUsage
                   /\ q.keysStatus[i].limit = keys[i].dailyLimit
                   /\ q.keysStatus[i].remaining = keys[i].dailyLimit - keys[i].dailyUsage
                   /\ q.keysStatus[i].active = keys[i].isActive]_vars

\* C12 witness: getQuotaStatus has answered for two records, the first at its
\* limit, the second deactivated after one call: 3 used in total.
C12_Witness ==
    /\ call.op = "getQuotaStatus"
    /\ Len(call.quota.keysStatus) = 2
    /\ call.quota.keysStatus[1].remaining = 0
    /\ call.quota.keysStatus[1].used = 2
    /\ ~call.quota.keysStatus[2].active
    /\ call.quota.keysStatus[2].used = 1
    /\ call.quota.totalUsed = 3
    /\ call.quota.totalLimit = 4

\* C13 (as claimed): two calls of getQuotaStatus with no call of
\* incrementUsage, disableKey or setupKeys between them give identical
\* results.
C13_SameSnapshotTwice ==
    [][(CallStep("getQuotaStatus") /\ snap.taken) => call'.quota = snap.quota]_vars

\* C13 (amended): two calls of getQuotaStatus on the same UTC date with no
\* call of incrementUsage, disableKey or setupKeys between them give
\* identical results.
C13_SameSnapshotTwiceSameDay ==
    [][(CallStep("getQuotaStatus") /\ snap.taken /\ snap.day = Today) =>
          call'.quota = snap.quota]_vars

\* C13 witness: getQuotaStatus has answered a second time on the same day
\* with no mutating call since the first answer, for a store with used quota
\* and a deactivated record.
C13_Witness ==
    /\ snap.again
    /\ call.op = "getQuotaStatus"
    /\ call.quota.totalUsed > 0
    /\ \E i \in DOMAIN call.quota.keysStatus : ~call.quota.keysStatus[i].active

\* a step in which a process constructs its manager: loadConfig
LoadStep == phase = "start" /\ phase' = "check"

\* C14 (as claimed): once a store has been persisted with saveConfig, loading
\* it with loadConfig from the same location yields credential records that
\* are identical field for field and in the same order.
C14_RoundTrip ==
    [][(LoadStep /\ persisted.saved) => config'.keys = persisted.keys]_vars

\* C14 (amended): once a store has been persisted with saveConfig and the
\* write succeeded, loading it yields the same records in the same order,
\* identical field for field where lastReset is the date of the load; a
\* record with another lastReset is loaded reset (dailyUsage=0,
\* isActive=true, lastReset=today), its other fields identical.
C14_RoundTripUpToReset ==
    [][(LoadStep /\ persisted.saved /\ persisted.ok) =>
          /\ DOMAIN config'.keys = DOMAIN persisted.keys
          /\ \A i \in DOMAIN persisted.keys :
                /\ config'.keys[i] = Rolled(persisted.keys[i], Today)
                /\ persisted.keys[i].lastReset = Today =>
                      config'.keys[i] = persisted.keys[i]]_vars

\* C14 witness: a process that has made no call yet holds, after loading, two
\* records with usage counted and a deactivation made by an earlier process,
\* as they were persisted.
C14_Witness ==
    /\ phase = "check"
    /\ call = NoCall
    /\ persisted.saved /\ persisted.ok
    /\ config.keys = persisted.keys
    /\ Len(config.keys) = 2
    /\ config.keys[1].dailyUsage > 0
    /\ ~config.keys[2].isActive

\* the records after the rollover reset of day `today`
RolledAll(keys, today) == [i \in DOMAIN keys |-> Rolled(keys[i], today)]

\* the record that getAvailableKey answers with for these records, or NoKey
FirstEligible(keys) ==
    IF \E i \in DOMAIN keys : Eligible(keys[i])
    THEN keys[CHOOSE i \in DOMAIN keys :
                 Eligible(keys[i]) /\ \A j \in 1..(i-1) : ~Eligible(keys[j])]
    ELSE NoKey

\* a record of the store has the id
Known(id) == \E i \in DOMAIN config.keys : config.keys[i].id = id

\* C15: when the write to the file fails during incrementUsage, disableKey,
\* setupKeys or the rollover reset, the operation returns, the file is as it
\* was, the change is made in memory, and getAvailableKey and getQuotaStatus
\* answer from the records in memory.
C15_MemoryAuthoritative ==
    [][~diskOk =>
         /\ file' = file
         /\ (CallStep("incrementUsage") /\ Known(call'.keyId)) =>
               \A i \in DOMAIN config.keys :
                  config'.keys[i] =
                     IF config.keys[i].id = call'.keyId
                     THEN [config.keys[i] EXCEPT !.dailyUsage = @ + 1]
                     ELSE config.keys[i]
         /\ (CallStep("disableKey") /\ Known(call'.keyId)) =>
               \A i \in DOMAIN config.keys :
                  config'.keys[i] =
                     IF config.keys[i].id = call'.keyId
                     THEN [config.keys[i] EXCEPT !.isActive = FALSE]
                     ELSE config.keys[i]
         /\ CallStep("setupKeys") =>
               /\ Len(config'.keys) = Len(call'.apiKeys)
               /\ \A i \in DOMAIN config'.keys :
                     /\ config'.keys[i].dailyUsage = 0
                     /\ config'.keys[i].isActive
                     /\ config'.keys[i].lastReset = Today
         /\ (CallStep("getAvailableKey") \/ CallStep("getQuotaStatus")) =>
               config'.keys = RolledAll(config.keys, Today)
         /\ (LoadStep /\ file.kind = "json") =>
               config'.keys = RolledAll(Parse(file.data).keys, Today)
         /\ CallStep("getAvailableKey") =>
               call'.key = FirstEligible(RolledAll(config.keys, Today))
         /\ CallStep("getQuotaStatus") =>
               /\ DOMAIN call'.quota.keysStatus = DOMAIN config.keys
               /\ \A i \in DOMAIN config.keys :
                     LET k == Rolled(config.keys[i], Today)
                     IN  /\ call'.quota.keysStatus[i].used = k.dailyUsage
                         /\ call'.quota.keysStatus[i].active = k.isActive]_vars

\* C15 witness: no write succeeds; the file still holds two unused active
\* records, and getQuotaStatus has answered with the usage counted and the
\* deactivation made in memory.
C15_Witness ==
    /\ ~diskOk
    /\ call.op = "getQuotaStatus"
    /\ file.kind = "json"
    /\ Len(config.keys) = 2
    /\ Len(Parse(file.data).keys) = 2
    /\ Parse(file.data).keys[1].dailyUsage = 0
    /\ Parse(file.data).keys[2].isActive
    /\ Parse(file.data).keys[1].lastReset = Today
    /\ call.quota.keysStatus[1].used = 2
    /\ ~call.quota.keysStatus[2].active

\* C16: when the file is absent or unparsable, load returns with an empty
\* store, which stays empty until a call that saves; and an absent or
\* unparsable file is left as it is by every step other than setupKeys, or
\* incrementUsage or disableKey on the id of a record of the store.
C16_CorruptFileUntouched ==
    [][file.kind \in {"absent", "corrupt"} =>
         /\ LoadStep => (config'.keys = <<>> /\ file' = file)
         /\ phase = "check" => config.keys = <<>> \/ persisted.saved
         /\ file' # file =>
               \/ CallStep("setupKeys")
               \/ /\ CallStep("incrementUsage") \/ CallStep("disableKey")
                  /\ Known(call'.keyId)]_vars

\* C16 witness: the file is unparsable and writes would succeed; the process
\* loaded an empty store, the date has changed since, and incrementUsage was
\* just called: the file is still as it was.
C16_Witness ==
    /\ file.kind = "corrupt"
    /\ diskOk
    /\ phase = "check"
    /\ config.keys = <<>>
    /\ call.op = "incrementUsage"
    /\ Today > IsoDate(StartNow)

\* C17: incrementUsage and disableKey with an id that no record of the store
\* has return without changing any record, without calling saveConfig and
\* without writing the file.
C17_UnknownIdNoOp ==
    [][((CallStep("incrementUsage") \/ CallStep("disableKey")) /\ ~Known(call'.keyId)) =>
          /\ config' = config
          /\ file' = file
          /\ persisted' = persisted]_vars

\* C17 witness: disableKey was just called with key_2 on a store whose only
\* record is key_1, active and with usage, while writes succeed.
C17_Witness ==
    /\ call.op = "disableKey"
    /\ call.keyId = KeyId(2)
    /\ diskOk
    /\ Len(config.keys) = 1
    /\ config.keys[1].isActive
    /\ config.keys[1].dailyUsage > 0

\* the state of a credential in the state machine of the specification
CredState(k) ==
    IF ~k.isActive THEN "Deactivated"
    ELSE IF k.dailyUsage < k.dailyLimit THEN "Active+UnderLimit"
    ELSE "Active+AtLimit"

\* C18: a credential changes state only from Active+UnderLimit to
\* Active+AtLimit, by an incrementUsage on it that reaches dailyLimit; to
\* Deactivated from either active state, by a disableKey on it; and to
\* Active+UnderLimit from any state, by the rollover reset, which happens only
\* to a record of another date. Without a rollover reset dailyUsage does not
\* decrease and isActive does not change from false to true. A credential
\* that setupKeys creates is Active+UnderLimit.
C18_CredentialStateMachine ==
    [][IF CallStep("setupKeys")
       THEN \A i \in DOMAIN config'.keys :
               CredState(config'.keys[i]) = "Active+UnderLimit"
       ELSE \A i \in DOMAIN config.keys \cap DOMAIN config'.keys :
               LET k == config.keys[i]
                   n == config'.keys[i]
               IN  IF n.lastReset # k.lastReset
                   THEN /\ k.lastReset # Today
                        /\ n.lastReset = Today
                        /\ n.dailyUsage = 0
                        /\ CredState(n) = "Active+UnderLimit"
                   ELSE /\ n.dailyUsage >= k.dailyUsage
                        /\ n.isActive => k.isActive
                        /\ CredState(n) # CredState(k) =>
                              \/ /\ CredState(k) = "Active+UnderLimit"
                                 /\ CredState(n) = "Active+AtLimit"
                                 /\ n.dailyUsage = n.dailyLimit
                                 /\ CallStep("incrementUsage")
                                 /\ call'.keyId = k.id
                              \/ /\ CredState(k) \in {"Active+UnderLimit", "Active+AtLimit"}
                                 /\ CredState(n) = "Deactivated"
                                 /\ CallStep("disableKey")
                                 /\ call'.keyId = k.id]_vars

\* C18 witness: key_1, reset by a rollover during the run, has since been
\* used up to its limit and then deactivated by the disableKey just called.
C18_Witness ==
    /\ call.op = "disableKey"
    /\ call.keyId = KeyId(1)
    /\ Len(config.keys) >= 1
    /\ ~config.keys[1].isActive
    /\ config.keys[1].dailyUsage = config.keys[1].dailyLimit
    /\ config.keys[1].lastReset > IsoDate(StartNow)
    /\ config.keys[1].lastReset = Today

\* steps in which the rollover reset changed a record, in loadConfig,
\* getAvailableKey or getQuotaStatus
ResetStep ==
    /\ ResettingAccess
    /\ \E i \in DOMAIN Before \cap DOMAIN config'.keys :
          config'.keys[i].lastReset # Before[i].lastReset

\* steps of the mutating operations of C19
MutatingStep ==
    \/ CallStep("setupKeys")
    \/ CallStep("incrementUsage") /\ Known(call'.keyId)
    \/ CallStep("disableKey") /\ Known(call'.keyId)
    \/ ResetStep

Writers == { m \in 1..2 : fd[m].text # <<>> }

\* C20: with two processes sharing the file, once a process has written and
\* while no write is under way, the file is the complete record of one
\* process as of its last write.
C20_FileIsOneProcessState ==
    (Writers # {} /\ \A m \in 1..2 : ~fd[m].open) =>
        /\ file.kind = "json"
        /\ \E m \in Writers : file.data = fd[m].text

\* C20, the lost update: the file is the last write of one process, and a
\* usage that the other process counted and wrote is not in it.
C20_LostUpdate ==
    /\ \A m \in 1..2 : ~fd[m].open
    /\ Writers = {1, 2}
    /\ file.kind = "json"
    /\ file.data = fd[2].text
    /\ \E i \in DOMAIN config.keys \cap DOMAIN Parse(file.data).keys :
          /\ config.keys[i].dailyUsage > 0
          /\ Parse(file.data).keys[i].dailyUsage = 0
          /\ Parse(fd[1].text).keys[i].dailyUsage > 0

\* every record of the store is of today
AllOfToday == \A i \in DOMAIN config.keys : config.keys[i].lastReset = Today

\* C21: a getAvailableKey on a store whose records all have lastReset = today
\* changes no record, leaves lastUpdated and the file as they were and does
\* not call saveConfig; on a store with a record of another day it changes
\* the records by the rollover reset only and calls saveConfig exactly once,
\* which, when the write succeeds, leaves the store in the file.
C21_GetAvailableKeyFrame ==
    [][CallStep("getAvailableKey") =>
          IF AllOfToday
          THEN /\ config' = config
               /\ file' = file
               /\ call'.writes = 0
          ELSE /\ config'.keys = RolledAll(config.keys, Today)
               /\ config'.version = config.version
               /\ call'.writes = 1
               /\ diskOk => file'.kind = "json" /\ Parse(file'.data) = config'
               /\ ~diskOk => file' = file]_vars

\* C21 witness: getAvailableKey has answered with a credential from records
\* of today, at a time later than lastUpdated, without calling saveConfig.
C21_Witness ==
    /\ call.op = "getAvailableKey"
    /\ call.key # NoKey
    /\ call.writes = 0
    /\ AllOfToday
    /\ config.lastUpdated < now
    /\ persisted.saved

\* a step of a call on the manager of a running process
ManagerStep == phase = "check" /\ phase' = "check"

\* C22 (as claimed): lastUpdated changes only when a write to the file
\* succeeds, and a write that fails leaves it unchanged.
C22_LastUpdatedOnlyOnSuccess ==
    [][(ManagerStep /\ config'.lastUpdated # config.lastUpdated) =>
          /\ diskOk
          /\ file'.kind = "json"
          /\ Parse(file'.data).lastUpdated = config'.lastUpdated]_vars

\* C22 (amended): lastUpdated is the time of the last call of saveConfig,
\* whether its write succeeded or failed, and changes in no other step of
\* the manager; the lastUpdated in the file is the time of the last write
\* that succeeded, and a failed write leaves the file as it was.
C22_LastUpdatedOnEverySave ==
    [][ManagerStep =>
          /\ IF call'.seq # call.seq /\ call'.writes > 0
             THEN config'.lastUpdated = now
             ELSE config'.lastUpdated = config.lastUpdated
          /\ file' # file =>
                /\ diskOk
                /\ call'.seq # call.seq /\ call'.writes > 0
                /\ file'.kind = "json"
                /\ Parse(file'.data).lastUpdated = now
          /\ ~diskOk => file' = file]_vars

\* C22 witness: an incrementUsage whose write failed has returned, and
\* lastUpdated in memory is the time of that call, later than the
\* lastUpdated in the file.
C22_Witness ==
    /\ ~diskOk
    /\ call.op = "incrementUsage"
    /\ call.writes = 1
    /\ config.lastUpdated = now
    /\ file.kind = "json"
    /\ Parse(file.data).lastUpdated < config.lastUpdated
    /\ IsoDate(Parse(file.data).lastUpdated) = Today

\* the credential records that file f holds
RecordsOf(f) == IF f.kind = "json" THEN Parse(f.data).keys ELSE <<>>

\* what the incremental operations leave of the records: which credentials
\* there are, in which order, and their limits
Identity(keys) ==
    [i \in DOMAIN keys |-> <<keys[i].id, keys[i].apiKey, keys[i].searchEngineId,
                             keys[i].dailyLimit>>]

\* a step that replaces the credentials of the file in bulk
BulkReplaced ==
    /\ file'.kind = "json"
    /\ file.kind # "json" \/ Identity(RecordsOf(file')) # Identity(RecordsOf(file))

\* C23 (as claimed): the credentials are replaced in bulk only by a call of
\* setupKeys.
C23_BulkReplaceOnlyBySetupKeys ==
    [][BulkReplaced => CallStep("setupKeys")]_vars

\* C23 (amended): the credentials are replaced in bulk only by setupKeys or
\* by setupGlobalConfig of setup.js, which writes the file itself; the file
\* that setupGlobalConfig writes holds exactly the records, and the version,
\* that a setupKeys call with the same secrets and search engine ids at the
\* same time creates and persists.
C23_SetupFlowAsSetupKeys ==
    [][/\ BulkReplaced => CallStep("setupKeys") \/ CallStep("setupGlobalConfig")
       /\ (CallStep("setupGlobalConfig") /\ diskOk) =>
             LET S == setupKeys(Store, call'.apiKeys, call'.searchEngineIds, now, TRUE)
             IN  /\ file'.kind = "json"
                 /\ RecordsOf(file') = S.config.keys
                 /\ RecordsOf(file') = RecordsOf(S.file)
                 /\ Parse(file'.data).version = Version
                 /\ Parse(file'.data).version = Parse(S.file.data).version]_vars

\* C23 witness: setup.js has written a file for two secrets, the first typed
\* with blanks around it and the second with a blank search engine id: the
\* file has the trimmed secret and the first search engine id for both.
C23_Witness ==
    /\ call.op = "setupGlobalConfig"
    /\ call.apiKeys = <<" AIza2 ", "AIza1">>
    /\ call.searchEngineIds = <<" cx2 ", " ">>
    /\ file.kind = "json"
    /\ Len(RecordsOf(file)) = 2
    /\ RecordsOf(file)[1].apiKey = "AIza2"
    /\ RecordsOf(file)[2].searchEngineId = "cx2"
    /\ RecordsOf(file)[2].dailyLimit = DefaultLimit

\* a step in which invocation p is given a credential by getAvailableKey
\* and starts the upstream call with it
StartsUpstream(p) == pc[p] = "idle" /\ pc'[p] = "await"

\* every record has a secret and a search engine id
AllFilled(keys) ==
    \A i \in DOMAIN keys : keys[i].apiKey # "" /\ keys[i].searchEngineId # ""

\* C24: getAvailableKey returns a credential, and execute makes an upstream
\* call, only when hasValidConfig is true, and the credential used has a
\* non-empty apiKey and a non-empty searchEngineId.
C24_UsedOnlyWhenValid ==
    [][\A p \in Procs :
          StartsUpstream(p) =>
             /\ hasValidConfig(config')
             /\ apiKey'[p].apiKey # ""
             /\ apiKey'[p].searchEngineId # ""]_vars

\* C24, what the code does ensure: getAvailableKey returns, and execute uses
\* upstream, a credential of some record of the store, whatever
\* hasValidConfig says and whether or not its fields are empty; when every
\* record of the store has a non-empty apiKey and searchEngineId, as in a
\* file that setup.js wrote, a credential is used only when hasValidConfig
\* is true and what is used has a non-empty apiKey and searchEngineId.
C24_UsedValidWhenAllFilled ==
    [][\A p \in Procs :
          StartsUpstream(p) =>
             /\ \E i \in DOMAIN config'.keys : apiKey'[p] = Credential(config'.keys[i])
             /\ (apiKey'[p].apiKey # "" /\ apiKey'[p].searchEngineId # "")
                   => hasValidConfig(config')
             /\ AllFilled(config'.keys) =>
                   /\ hasValidConfig(config')
                   /\ validConfig
                   /\ apiKey'[p].apiKey # ""
                   /\ apiKey'[p].searchEngineId # ""]_vars

\* C24, the case of a file that setup.js wrote: all records have a secret
\* and a search engine id, hasValidConfig has answered true and an invocation
\* is awaiting the upstream call with the credential of the second record.
C24_AllFilledUsed ==
    /\ AllFilled(config.keys)
    /\ validConfig
    /\ \E p \in Procs :
          /\ pc[p] = "await"
          /\ Len(config.keys) >= 2
          /\ apiKey[p] = Credential(config.keys[2])
          /\ apiKey[p].searchEngineId # ""

====
